---- MODULE Spec2Model ----
(***************************************************************************)
(* Model of pyqlab/datafile.py: the Datafile writer over an HDF5          *)
(* container.  The container is a tree of groups and datasets; every      *)
(* public method of Datafile is one atomic action (the program is         *)
(* single-threaded and synchronous), computed step by step as the method  *)
(* body runs, exceptions included.                                        *)
(*                                                                         *)
(* A path argument (a str or a PurePath) is the record of its parse:      *)
(* [abs |-> starts with '/', parts |-> its segments].                     *)
(* save_data_hierarchy (lines 237-250) touches no container state and is  *)
(* not modelled.                                                          *)
(***************************************************************************)
EXTENDS Integers, Sequences, FiniteSets, TLC

VARIABLES
    fexists,     \* the file self.fname exists on disk
    nodes,       \* the container: path (sequence of names) -> node; the root is implicit
    root_group,  \* self.root_group
    clock,       \* the wall clock datetime.datetime.now() reads
    last,        \* the call that returned last: operation, arguments, outcome
    pre,         \* the container as it was when that call started
    prev         \* summary of the call before the last one

vars == <<fexists, nodes, root_group, clock, last, pre, prev>>

\* ---------------------------------------------------------------- bounds
MaxClock == 1

\* ---------------------------------------------------------------- paths
Slash == [abs |-> TRUE, parts |-> <<>>]          \* '/'
Empty == [abs |-> FALSE, parts |-> <<>>]         \* ''
Rel(parts) == [abs |-> FALSE, parts |-> parts]   \* 'a/b'
Abs(parts) == [abs |-> TRUE, parts |-> parts]    \* '/a/b'

Front(s) == SubSeq(s, 1, Len(s) - 1)
Last(s) == s[Len(s)]

\* PurePath(a, b, ...): segments are joined, an absolute argument discards
\* everything before it.
RECURSIVE PurePath(_)
PurePath(args) ==
    IF args = <<>> THEN Empty
    ELSE LET acc == PurePath(Front(args))
             a == Last(args)
         IN IF a.abs THEN a
            ELSE [abs |-> acc.abs, parts |-> acc.parts \o a.parts]

\* p.parent: '/' and '.' are their own parents.
PathParent(p) ==
    IF p.parts = <<>> THEN p ELSE [abs |-> p.abs, parts |-> Front(p.parts)]

\* p.name: the last segment as a str, '' when there is none.
PathName(p) ==
    IF p.parts = <<>> THEN Empty ELSE Rel(<<Last(p.parts)>>)

\* A key handed to h5py: the Python type of the object and the path it spells.
PathKey(p) == [type |-> "PurePath", abs |-> p.abs, parts |-> p.parts]
StrKey(p) == [type |-> "str", abs |-> p.abs, parts |-> p.parts]

\* ---------------------------------------------------------------- container
NoAttr == [has |-> FALSE, str |-> ""]
GroupNode == [kind |-> "group", value |-> "", attr |-> NoAttr]
DatasetNode(v) == [kind |-> "dataset", value |-> v, attr |-> NoAttr]

IsGroup(n, path) == path = <<>> \/ (path \in DOMAIN n /\ n[path].kind = "group")
IsDataset(n, path) == path \in DOMAIN n /\ n[path].kind = "dataset"
Present(n, path) == path = <<>> \/ path \in DOMAIN n

Prefixes(path) == {SubSeq(path, 1, k) : k \in 1..Len(path)}
Under(n, path) == {q \in DOMAIN n : Len(q) > Len(path) /\ SubSeq(q, 1, Len(path)) = path}
Children(n, path) == {q \in Under(n, path) : Len(q) = Len(path) + 1}

\* h5py resolves a key against the object it is applied to; an absolute key
\* starts from the root of the file.
Resolve(base, key) == IF key.abs THEN key.parts ELSE base \o key.parts

\* Group.__getitem__: h5py accepts only str or bytes keys.
H5GetItem(n, base, key) ==
    IF key.type # "str" THEN [exc |-> "TypeError", path |-> <<>>]
    ELSE IF ~Present(n, Resolve(base, key)) THEN [exc |-> "KeyError", path |-> <<>>]
    ELSE [exc |-> "none", path |-> Resolve(base, key)]

\* Group.create_group: the name must be str or bytes; an existing name or a
\* dataset on the way is a ValueError; missing intermediate groups are created.
H5CreateGroup(n, base, key) ==
    LET path == Resolve(base, key) IN
    IF key.type # "str" THEN [exc |-> "TypeError", path |-> <<>>, nodes |-> n]
    ELSE IF Present(n, path) \/ \E q \in Prefixes(path) : IsDataset(n, q)
         THEN [exc |-> "ValueError", path |-> <<>>, nodes |-> n]
    ELSE [exc |-> "none", path |-> path,
          nodes |-> [q \in DOMAIN n \cup Prefixes(path) |->
                        IF q \in DOMAIN n THEN n[q] ELSE GroupNode]]

\* The classes the h5py package exports, by the kind of node they wrap;
\* any other attribute of the package is missing.
H5pyClassOf(attrname) ==
    CASE attrname = "Group" -> "group"
      [] attrname = "Dataset" -> "dataset"
      [] OTHER -> "missing"

\* isinstance(obj, h5py.<attrname>) for the object at path.
IsInstance(n, path, attrname) ==
    IF H5pyClassOf(attrname) = "missing" THEN [exc |-> "AttributeError", val |-> FALSE]
    ELSE [exc |-> "none",
          val |-> IF path = <<>> THEN H5pyClassOf(attrname) = "group"
                  ELSE n[path].kind = H5pyClassOf(attrname)]

\* The attributes of class Datafile: its methods.  generate_attr_str and
\* get_timestamp_now are module-level functions, not attributes of the class.
DatafileHasAttr(attrname) ==
    attrname \in {"__init__", "create_group", "save_as_dataset", "save_image",
                  "save_string", "save_variable", "save_nparray", "save_dataframe",
                  "save_data_hierarchy"}

\* ---------------------------------------------------------------- helpers
\* generate_attr_str: "key<eq>value" joined by sep, in insertion order.
RECURSIVE generate_attr_str(_, _, _)
generate_attr_str(attrs, sep, eq) ==
    IF attrs = <<>> THEN ""
    ELSE IF Len(attrs) = 1 THEN attrs[1][1] \o eq \o attrs[1][2]
    ELSE generate_attr_str(Front(attrs), sep, eq) \o sep
            \o Last(attrs)[1] \o eq \o Last(attrs)[2]

\* A get_timestamp_now that formats the time as text before replacing.
get_timestamp_now_text(now) == [exc |-> "none", val |-> ToString(now)]

\* get_timestamp_now: datetime.replace takes integer fields (year, month, ...);
\* called with the strings ":" and "_" it raises TypeError.
get_timestamp_now(now) == [exc |-> "TypeError", val |-> ""]

\* ---------------------------------------------------------------- Datafile
\* The number of times event e occurs in a trace.
RECURSIVE Count(_, _)
Count(trace, e) ==
    IF trace = <<>> THEN 0
    ELSE Count(Front(trace), e) + (IF Last(trace) = e THEN 1 ELSE 0)

\* What a call leaves behind: the returned value ("True", "False", "None";
\* "raise" when an exception escapes, exc naming it), what was printed to
\* the console, the container, and the trace of what was done to the file:
\* "open" and "close" of a session, and the accesses in between.
Outcome(ret, exc, logged, n, fe, trace) ==
    [ret |-> ret, exc |-> exc, logged |-> logged, nodes |-> n, fexists |-> fe,
     opens |-> Count(trace, "open"), trace |-> trace]

\* h5py.File(self.fname, 'a'): fails with OSError when the file cannot be
\* opened, creates the file when it does not exist.
H5Open(io) == IF io = "open" THEN "OSError" ELSE "none"

\* create_group, line 96: the path of the group to materialize.
create_group_p(root, parentkey, groupname) == PurePath(<<root, parentkey, groupname>>)

\* save_as_dataset, line 136: the path of the parent group looked up.
save_as_dataset_grp_key(root, grp_key) == PurePath(<<root, grp_key>>)

\* A try body that addresses the file with string keys and creates the
\* requested group, with the missing groups above it.
create_group_try_keyed(n, p, now) ==
    LET made == H5CreateGroup(n, <<>>, StrKey(p))
    IN  [exc |-> made.exc, success |-> made.exc = "none", nodes |-> made.nodes,
         trace |-> <<"get", "create_group">>]

\* create_group, lines 102-117: the body of the try statement.
create_group_try(n, p, now) ==
    LET parent_key == PathKey(PathParent(p))
        grp_key == StrKey(PathName(p))
        found == H5GetItem(n, <<>>, parent_key)
        made == H5CreateGroup(n, <<>>, parent_key)
        \* lines 102-105
        lookupExc == IF found.exc = "KeyError" THEN made.exc ELSE found.exc
        parent == IF found.exc = "KeyError" THEN made.path ELSE found.path
        n1 == IF found.exc = "KeyError" THEN made.nodes ELSE n
        \* line 107
        isgrp == IsInstance(n1, parent, "Datagroup")
        \* line 108
        grp == H5CreateGroup(n1, parent, grp_key)
        \* line 109
        ct == get_timestamp_now(now)
        \* the accesses to the file made by lines 102-105, and with line 108
        t1 == IF found.exc = "KeyError" THEN <<"get", "create_group">> ELSE <<"get">>
        t2 == t1 \o <<"create_group">>
    IN  IF lookupExc # "none"
        THEN [exc |-> lookupExc, success |-> FALSE, nodes |-> n1, trace |-> t1]
        ELSE IF isgrp.exc # "none"
        THEN [exc |-> isgrp.exc, success |-> FALSE, nodes |-> n1, trace |-> t1]
        ELSE IF ~isgrp.val
        THEN [exc |-> "none", success |-> FALSE, nodes |-> n1, trace |-> t1]
        ELSE IF grp.exc # "none"
        THEN [exc |-> grp.exc, success |-> FALSE, nodes |-> n1, trace |-> t2]
        ELSE IF ct.exc # "none"
        THEN [exc |-> ct.exc, success |-> FALSE, nodes |-> grp.nodes, trace |-> t2]
        \* line 110: Datafile.generate_attr_str
        ELSE IF ~DatafileHasAttr("generate_attr_str")
        THEN [exc |-> "AttributeError", success |-> FALSE, nodes |-> grp.nodes,
              trace |-> t2]
        \* line 117; attr_str is computed and attached to nothing
        ELSE [exc |-> "none", success |-> TRUE, nodes |-> grp.nodes, trace |-> t2]

\* A create_group whose success flag starts out True.
create_group_except_true(body) ==
    Outcome("True", "none", IF body.exc = "none" THEN <<>> ELSE <<body.exc>>,
            body.nodes, TRUE, <<"open">> \o body.trace \o <<"close">>)

\* A create_group that closes the file by hand at the end of the try body:
\* the session stays open when the body raises.
create_group_except_unclosed(body) ==
    Outcome(IF body.success THEN "True" ELSE "False", "none",
            IF body.exc = "none" THEN <<>> ELSE <<body.exc>>,
            body.nodes, TRUE,
            <<"open">> \o body.trace \o (IF body.exc = "none" THEN <<"close">> ELSE <<>>))

\* create_group, lines 100-124, once the file is open: every exception of
\* the try body is caught and printed, a ValueError with a line of its own;
\* the with statement closes the session, and success is returned.
create_group_except(body) ==
    Outcome(IF body.success THEN "True" ELSE "False", "none",
            IF body.exc = "none" THEN <<>>
            ELSE IF body.exc = "ValueError" THEN <<"group cannot be created", body.exc>>
            ELSE <<body.exc>>,
            body.nodes, TRUE, <<"open">> \o body.trace \o <<"close">>)

\* create_group, lines 94-124.  The file is opened outside the try statement.
create_group(n, fe, root, groupname, parentkey, note, grouptype, io, now) ==
    IF H5Open(io) # "none" THEN Outcome("raise", H5Open(io), <<>>, n, fe, <<>>)
    ELSE create_group_except(
             create_group_try(n, create_group_p(root, parentkey, groupname), now))

\* Removing an entry removes everything below it.
H5Delete(n, path) == [q \in (DOMAIN n \ ({path} \cup Under(n, path))) |-> n[q]]

\* save_as_dataset, lines 137-152: the statements run while the second
\* session is open, key being the grp_key of line 136.  Nothing here is
\* caught: an exception ends the call.
save_as_dataset_session(n, key, n_key, data, attr_str, overwrite, io) ==
    LET grp == H5GetItem(n, <<>>, key)
        isgrp == IsInstance(n, grp.path, "Group")
        target == Resolve(grp.path, StrKey(n_key))
        \* n_key in grp.keys(): '' names no member
        member(m) == n_key.parts # <<>> /\ target \in DOMAIN m
        isds == IsInstance(n, target, "Dataset")
        \* lines 142-144
        n1 == IF member(n) /\ isds.val /\ overwrite THEN H5Delete(n, target) ELSE n
        \* line 149
        n2 == [q \in DOMAIN n1 \cup {target} |->
                  IF q = target THEN DatasetNode(data) ELSE n1[q]]
        \* line 151
        n3 == [n2 EXCEPT ![target].attr = [has |-> TRUE, str |-> attr_str]]
        \* the accesses to the file: lines 137, 142-145, 149, 151
        t1 == <<"get">>
        t2 == t1 \o <<"keys">>
                 \o (IF member(n) /\ isds.val /\ overwrite THEN <<"delete">> ELSE <<>>)
        t3 == t2 \o <<"create_dataset">>
        t4 == t3 \o <<"attr">>
    IN  IF grp.exc # "none" THEN [exc |-> grp.exc, nodes |-> n, trace |-> t1]
        ELSE IF isgrp.exc # "none" THEN [exc |-> isgrp.exc, nodes |-> n, trace |-> t1]
        ELSE IF ~isgrp.val
        THEN [exc |-> "Exception(Name already occupied)", nodes |-> n, trace |-> t1]
        ELSE IF member(n) /\ isds.exc # "none"
        THEN [exc |-> isds.exc, nodes |-> n, trace |-> t1 \o <<"keys">>]
        ELSE IF member(n1)
        THEN [exc |-> "Exception(Cannot overwrite key)", nodes |-> n1, trace |-> t2]
        ELSE IF io = "write" \/ n_key.parts = <<>> THEN
             [exc |-> IF io = "write" THEN "OSError" ELSE "ValueError", nodes |-> n1,
              trace |-> t3]
        ELSE IF io = "attr" THEN [exc |-> "OSError", nodes |-> n2, trace |-> t4]
        ELSE [exc |-> "none", nodes |-> n3, trace |-> t4]

\* save_as_dataset, lines 135-154: the with statement.  The session closes
\* on an exception and lets it through.
save_as_dataset_with(cg, body) ==
    IF body.exc # "none"
    THEN Outcome("raise", body.exc, cg.logged, body.nodes, TRUE,
                 cg.trace \o <<"open">> \o body.trace \o <<"close">>)
    ELSE Outcome("True", "none", cg.logged, body.nodes, TRUE,
                 cg.trace \o <<"open">> \o body.trace \o <<"close">>)

\* A save_as_dataset that does not look at what create_group returned and
\* hands h5py the group key as a str.
save_as_dataset_unchecked(cg, root, grp_key, n_key, data, attr_str, overwrite, io) ==
    IF cg.ret = "raise" THEN cg
    ELSE save_as_dataset_with(cg,
             save_as_dataset_session(cg.nodes, StrKey(save_as_dataset_grp_key(root, grp_key)),
                                     n_key, data, attr_str, overwrite, io))

\* save_as_dataset, lines 134-137: the dataset is written only when
\* create_group, given the outcome cg, returned True.
save_as_dataset_if(cg, root, grp_key, n_key, data, attr_str, overwrite, io) ==
    IF cg.ret = "raise" THEN cg
    ELSE IF cg.ret # "True" THEN
         Outcome("False", "none", cg.logged, cg.nodes, cg.fexists, cg.trace)
    ELSE IF H5Open(io) # "none" THEN
         Outcome("raise", H5Open(io), cg.logged, cg.nodes, cg.fexists, cg.trace)
    ELSE save_as_dataset_with(cg,
             save_as_dataset_session(cg.nodes, PathKey(save_as_dataset_grp_key(root, grp_key)),
                                     n_key, data, attr_str, overwrite, io))

\* save_as_dataset, lines 126-154.  The parent group is materialized by
\* create_group in a session of its own; the dataset is written in a second
\* session.
save_as_dataset(n, fe, root, data, name, groupkey, attr_str, overwrite, io, now) ==
    save_as_dataset_if(
        create_group(n, fe, root, PathParent(PurePath(<<groupkey, name>>)), Slash,
                     "", "", io, now),
        root, PathParent(PurePath(<<groupkey, name>>)),
        PathName(PurePath(<<groupkey, name>>)), data, attr_str, overwrite, io)

\* A callee's exception escapes the caller; a callee's return value is
\* dropped by a method that has no return statement.
Dropped(o) == IF o.ret = "raise" THEN o ELSE [o EXCEPT !.ret = "None"]

\* An exception caught by "except Exception" is printed; the method then
\* falls off its end and returns None.
Caught(o) ==
    IF o.ret = "raise"
    THEN [o EXCEPT !.ret = "None", !.exc = "none", !.logged = o.logged \o <<o.exc>>]
    ELSE o

Raised(exc, n, fe) == Outcome("raise", exc, <<>>, n, fe, <<>>)

\* A construction that obtains its timestamp and writes its log entry.
Datafile_init_logged(n, fe, root, operator, note, io, now) ==
    Dropped(save_as_dataset_unchecked(
                create_group(n, fe, root, Abs(<<"pyqlab_log">>), Slash, "", "", io, now),
                root, Abs(<<"pyqlab_log">>),
                Rel(<<"LogINIT[" \o get_timestamp_now_text(now).val \o "]">>),
                "Initiated by operator: [" \o operator \o "]. Note: [" \o note \o "]",
                "", TRUE, io))

\* __init__, lines 83-92.  Nothing is caught and the result of
\* save_as_dataset is not looked at.
Datafile_init(n, fe, root, operator, note, io, now) ==
    LET ct == get_timestamp_now(now)
        dataset_name == Rel(<<"LogINIT[" \o ct.val \o "]">>)
        data == "Initiated by operator: [" \o operator \o "]. Note: [" \o note \o "]"
    IN  IF ct.exc # "none" THEN Raised(ct.exc, n, fe)
        ELSE Dropped(save_as_dataset(n, fe, root, data, dataset_name,
                                     Abs(<<"pyqlab_log">>), "", TRUE, io, now))

\* h5py.string_dtype(encoding='utf-8', length=None): any other keyword is
\* a TypeError.
H5StringDtype(keyword) == IF keyword = "encoding" THEN "none" ELSE "TypeError"

\* np.fromstring(text) with the default separator reads the text as raw
\* float64 bytes; text is not such a buffer.
NpFromString(data) == [exc |-> "ValueError", val |-> data]

Warned(lines, o) == [o EXCEPT !.logged = lines \o @]

\* save_image, lines 156-185.  The whole body is inside try/except
\* Exception; the except branch prints and returns nothing.
save_image(n, fe, root, name, groupkey, data, shapeMatches, color_channels, note, overwrite, io, now) ==
    LET warned == IF shapeMatches THEN <<>> ELSE <<"Warning: dimension">>
        ct == get_timestamp_now(now)
        attr_str == generate_attr_str(<< <<"type", "image">>,
                                         <<"dimensions", "dim">>,
                                         <<"color_channels", color_channels>>,
                                         <<"timestamp", ct.val>>,
                                         <<"note", note>> >>, "\n", ":")
        o == IF ct.exc # "none" THEN Raised(ct.exc, n, fe)
             ELSE IF ~DatafileHasAttr("generate_attr_str")
                  THEN Raised("AttributeError", n, fe)
             ELSE save_as_dataset(n, fe, root, data, name, groupkey, attr_str,
                                  overwrite, io, now)
    IN  Warned(warned, Caught(o))

\* save_string, lines 187-206.  No try statement, no return statement.
save_string(n, fe, root, name, groupkey, data, note, overwrite, io, now) ==
    LET ct == get_timestamp_now(now)
        d == NpFromString(data)
        attr_str == generate_attr_str(<< <<"type", "str">>,
                                         <<"timestamp", ct.val>>,
                                         <<"note", note>> >>, "\n", ":")
    IN  IF H5StringDtype("encode") # "none" THEN Raised(H5StringDtype("encode"), n, fe)
        ELSE IF ct.exc # "none" THEN Raised(ct.exc, n, fe)
        ELSE IF d.exc # "none" THEN Raised(d.exc, n, fe)
        ELSE IF ~DatafileHasAttr("generate_attr_str") THEN Raised("AttributeError", n, fe)
        ELSE Dropped(save_as_dataset(n, fe, root, d.val, name, groupkey, attr_str,
                                     overwrite, io, now))

\* save_variable, lines 208-217, and save_nparray, lines 219-227: the same
\* statements, save_variable with one more field; overwrite is left at its
\* default, True.
save_variable(n, fe, root, name, groupkey, data, note, typestr, io, now) ==
    LET ct == get_timestamp_now(now)
        attr_str == generate_attr_str(<< <<"typestr", typestr>>,
                                         <<"timestamp", ct.val>>,
                                         <<"note", note>> >>, "\n", ":")
    IN  IF ct.exc # "none" THEN Raised(ct.exc, n, fe)
        ELSE IF ~DatafileHasAttr("generate_attr_str") THEN Raised("AttributeError", n, fe)
        ELSE Dropped(save_as_dataset(n, fe, root, data, name, groupkey, attr_str,
                                     TRUE, io, now))

save_nparray(n, fe, root, name, groupkey, data, note, io, now) ==
    LET ct == get_timestamp_now(now)
        attr_str == generate_attr_str(<< <<"timestamp", ct.val>>,
                                         <<"note", note>> >>, "\n", ":")
    IN  IF ct.exc # "none" THEN Raised(ct.exc, n, fe)
        ELSE IF ~DatafileHasAttr("generate_attr_str") THEN Raised("AttributeError", n, fe)
        ELSE Dropped(save_as_dataset(n, fe, root, data, name, groupkey, attr_str,
                                     TRUE, io, now))

\* DataFrame.to_hdf(fname, key, 'r+'): the table library stores the frame
\* below the group at key, in entries of its own without a pyqlab attribute.
PandasToHdf(n, path, df) ==
    [q \in DOMAIN n \cup {path \o <<"block0_values">>} |->
        IF q \in DOMAIN n THEN n[q] ELSE DatasetNode(df)]

\* save_dataframe, lines 229-235.  No try statement, no return statement.
\* to_hdf is given the file name: the table library opens and closes the
\* file itself.
save_dataframe_if(cg, path, df, io) ==
    IF cg.ret # "True" THEN Dropped(cg)
    ELSE IF io = "write" THEN
         Outcome("raise", "OSError", cg.logged, cg.nodes, cg.fexists,
                 cg.trace \o <<"open", "to_hdf", "close">>)
    ELSE Outcome("None", "none", cg.logged, PandasToHdf(cg.nodes, path, df),
                 cg.fexists, cg.trace \o <<"open", "to_hdf", "close">>)

save_dataframe(n, fe, root, name, groupkey, df, note, io, now) ==
    IF get_timestamp_now(now).exc # "none"
    THEN Raised(get_timestamp_now(now).exc, n, fe)
    ELSE save_dataframe_if(
             create_group(n, fe, root, PurePath(<<groupkey, name>>), Slash, note,
                          "DataFrame", io, now),
             PurePath(<<root, Slash, PurePath(<<groupkey, name>>)>>).parts, df, io)

\* ---------------------------------------------------------------- inputs
Names == {Rel(<<"x">>)}
\* create_group is also asked for the group named by parentkey alone.
GroupNames == Names \cup {Empty}
GroupKeys == {Empty, Slash, Rel(<<"g">>)}
Roots == {Slash, Abs(<<"r">>)}
Notes == {"n1"}
AttrStrs == {"", "timestamp:t1\nnote:n1"}
Values == {"v1"}
IOFailures == {"ok", "open", "write", "attr"}   \* the h5py call that fails with OSError

\* ---------------------------------------------------------------- initial containers
OldAttr == [has |-> TRUE, str |-> "timestamp:t0\nnote:old"]
OldDataset == [kind |-> "dataset", value |-> "v0", attr |-> OldAttr]

Choice(kind) == IF kind = "dataset" THEN OldDataset ELSE GroupNode

\* A container written earlier under the root group r: g and x at the top,
\* g/x below g when g is a group, and the log group with or without an entry.
Tree(r, g, gx, x, log) ==
    LET paths == (IF r # <<>> THEN {r} ELSE {})
                 \cup (IF g # "absent" THEN {r \o <<"g">>} ELSE {})
                 \cup (IF g = "group" /\ gx # "absent" THEN {r \o <<"g", "x">>} ELSE {})
                 \cup (IF x # "absent" THEN {r \o <<"x">>} ELSE {})
                 \cup (IF log # "absent" THEN {r \o <<"pyqlab_log">>} ELSE {})
                 \cup (IF log = "entry" THEN {r \o <<"pyqlab_log", "LogINIT[0]">>} ELSE {})
    IN  [q \in paths |->
            IF q = r THEN GroupNode
            ELSE IF q = r \o <<"g">> THEN Choice(g)
            ELSE IF q = r \o <<"g", "x">> THEN Choice(gx)
            ELSE IF q = r \o <<"x">> THEN Choice(x)
            ELSE IF q = r \o <<"pyqlab_log">> THEN GroupNode
            ELSE OldDataset]

InitTrees(r) ==
    {Tree(r, g, gx, x, log) :
        g \in {"absent", "dataset", "group"}, gx \in {"absent", "dataset", "group"},
        x \in {"absent", "dataset"}, log \in {"absent", "entry"}}

\* ---------------------------------------------------------------- state machine
NoCall ==
    [op |-> "none", name |-> Empty, groupkey |-> Empty, overwrite |-> FALSE,
     data |-> "", text |-> "", io |-> "ok",
     ret |-> "None", exc |-> "none", logged |-> <<>>, opens |-> 0, trace |-> <<>>]

Call(op, name, groupkey, overwrite, data, text, io, o) ==
    [op |-> op, name |-> name, groupkey |-> groupkey, overwrite |-> overwrite,
     data |-> data, text |-> text, io |-> io,
     ret |-> o.ret, exc |-> o.exc, logged |-> o.logged, opens |-> o.opens,
     trace |-> o.trace]

SameCall(c, d) ==
    /\ c.op = d.op /\ c.name = d.name /\ c.groupkey = d.groupkey
    /\ c.overwrite = d.overwrite /\ c.data = d.data /\ c.text = d.text /\ c.io = d.io

\* A call runs to its end before the next one starts.
Returns(c, o) ==
    /\ fexists' = o.fexists
    /\ nodes' = o.nodes
    /\ pre' = nodes
    /\ last' = c
    /\ prev' = IF SameCall(c, last) THEN [same |-> TRUE, ret |-> last.ret]
               ELSE [same |-> FALSE, ret |-> "None"]
    /\ UNCHANGED <<root_group, clock>>

Init ==
    /\ root_group \in Roots
    /\ \/ fexists = FALSE /\ nodes = <<>>
       \/ fexists = TRUE /\ nodes \in InitTrees(root_group.parts)
    /\ clock = 0
    /\ last = NoCall
    /\ pre = nodes
    /\ prev = [same |-> FALSE, ret |-> "None"]

Tick ==
    /\ clock < MaxClock
    /\ clock' = clock + 1
    /\ UNCHANGED <<fexists, nodes, root_group, last, pre, prev>>

Construct ==
    \E operator \in {"alice"}, note \in Notes, io \in IOFailures :
        \E o \in {Datafile_init(nodes, fexists, root_group, operator, note, io, clock)} :
            Returns(Call("__init__", Empty, Empty, TRUE, operator, note, io, o), o)

CreateGroup ==
    \E groupname \in GroupNames, parentkey \in GroupKeys, note \in Notes, io \in IOFailures :
        \E o \in {create_group(nodes, fexists, root_group, groupname, parentkey, note,
                              "", io, clock)} :
            Returns(Call("create_group", groupname, parentkey, FALSE, "", note, io, o), o)

SaveAsDataset ==
    \E name \in Names, groupkey \in GroupKeys, data \in Values, attr_str \in AttrStrs,
       overwrite \in BOOLEAN, io \in IOFailures :
        \E o \in {save_as_dataset(nodes, fexists, root_group, data, name, groupkey,
                                 attr_str, overwrite, io, clock)} :
            Returns(Call("save_as_dataset", name, groupkey, overwrite, data, attr_str,
                        io, o), o)

SaveImage ==
    \E name \in Names, groupkey \in GroupKeys, data \in Values, note \in Notes,
       shapeMatches \in BOOLEAN, overwrite \in BOOLEAN, io \in IOFailures :
        \E o \in {save_image(nodes, fexists, root_group, name, groupkey, data,
                            shapeMatches, "RGB", note, overwrite, io, clock)} :
            Returns(Call("save_image", name, groupkey, overwrite, data, note, io, o), o)

SaveString ==
    \E name \in Names, groupkey \in GroupKeys, data \in Values, note \in Notes,
       overwrite \in BOOLEAN, io \in IOFailures :
        \E o \in {save_string(nodes, fexists, root_group, name, groupkey, data, note,
                             overwrite, io, clock)} :
            Returns(Call("save_string", name, groupkey, overwrite, data, note, io, o), o)

SaveVariable ==
    \E name \in Names, groupkey \in GroupKeys, data \in Values, note \in Notes,
       io \in IOFailures :
        \E o \in {save_variable(nodes, fexists, root_group, name, groupkey, data, note,
                               "double", io, clock)} :
            Returns(Call("save_variable", name, groupkey, TRUE, data, note, io, o), o)

SaveNparray ==
    \E name \in Names, groupkey \in GroupKeys, data \in Values, note \in Notes,
       io \in IOFailures :
        \E o \in {save_nparray(nodes, fexists, root_group, name, groupkey, data, note,
                              io, clock)} :
            Returns(Call("save_nparray", name, groupkey, TRUE, data, note, io, o), o)

SaveDataframe ==
    \E name \in Names, groupkey \in GroupKeys, df \in Values, note \in Notes,
       io \in IOFailures :
        \E o \in {save_dataframe(nodes, fexists, root_group, name, groupkey, df, note,
                                io, clock)} :
            Returns(Call("save_dataframe", name, groupkey, TRUE, df, note, io, o), o)

Next ==
    \/ Tick
    \/ Construct
    \/ CreateGroup
    \/ SaveAsDataset
    \/ SaveImage
    \/ SaveString
    \/ SaveVariable
    \/ SaveNparray
    \/ SaveDataframe

Spec == Init /\ [][Next]_vars

\* ---------------------------------------------------------------- properties
\* The entry a write call names: root_group / groupkey / name, joined as
\* save_as_dataset joins them (lines 130-136).
TargetOf(c) == PurePath(<<root_group, c.groupkey, c.name>>).parts

Datasets(n) == {q \in DOMAIN n : n[q].kind = "dataset"}

\* The call that returned last reached the container: no OSError on open.
Ran(op) == last.op = op /\ last.io = "ok"

\* The call failed with error e: e escaped, or was caught and printed.
FailedWith(c, e) == c.exc = e \/ \E i \in DOMAIN c.logged : c.logged[i] = e

PublicWrites ==
    {"create_group", "save_as_dataset", "save_image", "save_string", "save_variable",
     "save_nparray", "save_dataframe"}

\* C1: a write with overwrite=false to a name that holds a dataset returns
\* False and leaves that dataset, value and attribute, as it was.
C1_KeepWithoutOverwrite ==
    (Ran("save_as_dataset") /\ ~last.overwrite /\ IsDataset(pre, TargetOf(last)))
        => /\ last.ret = "False"
           /\ IsDataset(nodes, TargetOf(last))
           /\ nodes[TargetOf(last)] = pre[TargetOf(last)]

C1_Witness ==
    /\ Ran("save_as_dataset") /\ ~last.overwrite
    /\ IsDataset(pre, TargetOf(last))
    /\ last.ret = "False"
    /\ nodes[TargetOf(last)] = OldDataset
    /\ last.data # OldDataset.value

\* C2: a write with overwrite=true to a name that holds a dataset returns
\* True, and the name then holds one dataset with the new value and the
\* attribute of the new write.
C2_OverwriteReplaces ==
    (Ran("save_as_dataset") /\ last.overwrite /\ IsDataset(pre, TargetOf(last)))
        => /\ last.ret = "True"
           /\ IsDataset(nodes, TargetOf(last))
           /\ nodes[TargetOf(last)].value = last.data
           /\ nodes[TargetOf(last)].attr = [has |-> TRUE, str |-> last.text]

\* C3: a dataset write to a path that holds a group fails with the
\* name-occupied error of line 146, whatever overwrite is, and the group and
\* everything below it stay as they were.
C3_GroupNotReplaced ==
    (Ran("save_as_dataset") /\ TargetOf(last) \in DOMAIN pre
                            /\ pre[TargetOf(last)].kind = "group")
        => /\ FailedWith(last, "Exception(Cannot overwrite key)")
           /\ nodes = pre

\* C4: create_group on a path whose leaf or intermediate segment holds a
\* dataset returns False, reports the collision, and leaves the dataset as
\* it was.
C4_DatasetNotReplaced ==
    (Ran("create_group") /\ \E q \in Prefixes(TargetOf(last)) : IsDataset(pre, q))
        => /\ last.ret = "False"
           /\ FailedWith(last, "group cannot be created")
           /\ \A q \in Prefixes(TargetOf(last)) :
                 IsDataset(pre, q) => IsDataset(nodes, q) /\ nodes[q] = pre[q]

\* C5: create_group called twice in a row with the same arguments returns
\* True both times, and the second call leaves one group at the path and the
\* container as the first call left it.
C5_CreateGroupIdempotent ==
    (Ran("create_group") /\ prev.same
        /\ ~\E q \in Prefixes(TargetOf(last)) : IsDataset(pre, q))
        => /\ prev.ret = "True"
           /\ last.ret = "True"
           /\ TargetOf(last) \in DOMAIN nodes
           /\ nodes[TargetOf(last)].kind = "group"
           /\ nodes = pre

C8_NoExceptionEscapes ==
    last.op \in PublicWrites => last.ret \in {"True", "False"}

LogGroup == root_group.parts \o <<"pyqlab_log">>

\* C10: a construction adds one dataset, and only one, under the log group;
\* it records the operator and the note, and every dataset that existed
\* before is as it was.
C10_ConstructionLogsOnce ==
    Ran("__init__")
        => /\ \E q \in Datasets(nodes) \ Datasets(pre) :
                /\ Datasets(nodes) \ Datasets(pre) = {q}
                /\ Front(q) = LogGroup
                /\ nodes[q].value = "Initiated by operator: [" \o last.data
                                        \o "]. Note: [" \o last.text \o "]"
           /\ \A q \in Datasets(pre) : q \in DOMAIN nodes /\ nodes[q] = pre[q]


\* The entries of a construction log: the datasets directly below a group
\* named pyqlab_log.
LogEntries(n) == {q \in Datasets(n) : Len(q) >= 2 /\ q[Len(q) - 1] = "pyqlab_log"}

\* A step in which a construction completes without raising.
ConstructionSucceeds ==
    /\ clock' = clock
    /\ vars' # vars
    /\ last'.op = "__init__"
    /\ last'.ret = "None"

Materialized(c) ==
    create_group(pre, TRUE, root_group, PathParent(PurePath(<<c.groupkey, c.name>>)),
                 Slash, "", "", c.io, clock)

\* C12: when create_group returns failure for the parent path of a write,
\* save_as_dataset returns False and the call creates, deletes and modifies
\* no dataset.
C12_FailedMaterializationWritesNothing ==
    (last.op = "save_as_dataset" /\ Materialized(last).ret = "False") =>
        /\ last.ret = "False"
        /\ Datasets(nodes) = Datasets(pre)
        /\ \A q \in Datasets(pre) : nodes[q] = pre[q]

\* A write to a free name in a file holding datasets, whose materialization
\* step has failed: the write returned False and the name is still free.
C12_Witness ==
    /\ Ran("save_as_dataset")
    /\ Materialized(last).ret = "False"
    /\ last.ret = "False"
    /\ Datasets(pre) # {}
    /\ TargetOf(last) \notin DOMAIN pre
    /\ TargetOf(last) \notin DOMAIN nodes


\* The number of sessions held after the first i events of a trace.
Held(trace, i) ==
    Count(SubSeq(trace, 1, i), "open") - Count(SubSeq(trace, 1, i), "close")

\* C13: the file handle is released on every exit path.  After any public
\* operation has returned or raised no session is left open, at most one
\* session is held at a time, and every read and every mutation of the
\* file happens while a session is held.
C13_SessionsReleased ==
    /\ Held(last.trace, Len(last.trace)) = 0
    /\ \A i \in DOMAIN last.trace :
           /\ Held(last.trace, i) \in {0, 1}
           /\ last.trace[i] \notin {"open", "close"} => Held(last.trace, i - 1) = 1

\* A write whose materialization step failed inside its session: the file
\* was opened, read, and closed again before the call returned False.
C13_Witness ==
    /\ Ran("save_as_dataset")
    /\ FailedWith(last, "TypeError")
    /\ last.ret = "False"
    /\ last.trace = <<"open", "get", "close">>


\* C14: save_image with a buffer whose shape differs from the declared
\* dimensions still succeeds.  When the warning of line 168 has been printed
\* and the target name was free, the call returns True and the dataset
\* exists at the target path, holding the buffer.
C14_MismatchedImageSaved ==
    (Ran("save_image") /\ FailedWith(last, "Warning: dimension")
                       /\ TargetOf(last) \notin DOMAIN pre)
        => /\ last.ret = "True"
           /\ IsDataset(nodes, TargetOf(last))
           /\ nodes[TargetOf(last)].value = last.data

\* The methods that write one dataset.
DatasetWrites ==
    {"save_as_dataset", "save_image", "save_string", "save_variable", "save_nparray"}

\* The write c has not made its dataset: the target holds no dataset, or
\* holds the one it held before the call.
NotCreated(c) ==
    \/ ~IsDataset(nodes, TargetOf(c))
    \/ IsDataset(pre, TargetOf(c)) /\ nodes[TargetOf(c)] = pre[TargetOf(c)]

\* C15: no data is lost by a failed write.  When a write, with overwrite
\* true or false, has ended in failure (False, None or an exception) without
\* having made its dataset, every dataset that existed before the call
\* still exists with the value and the provenance attribute it had.
C15_FailedWriteLosesNothing ==
    (last.op \in DatasetWrites /\ last.ret # "True" /\ NotCreated(last))
        => \A q \in Datasets(pre) : q \in Datasets(nodes) /\ nodes[q] = pre[q]

\* A write with overwrite=True on a name holding a dataset has failed, and
\* the old dataset is still there with its value and its attribute.
C15_Witness ==
    /\ last.op = "save_as_dataset" /\ last.overwrite
    /\ last.ret = "False"
    /\ IsDataset(pre, TargetOf(last))
    /\ nodes[TargetOf(last)] = OldDataset
    /\ last.data # OldDataset.value


\* Every segment of the path, from the top down to the leaf, is a group.
AllGroups(n, path) == \A q \in Prefixes(path) : IsGroup(n, q)

\* C16: create_group returns True only if at the end of the call every
\* segment of the requested path exists as a group; and when no segment is
\* occupied by a dataset (and the file opens), it creates the missing
\* groups and returns True.
C16_GroupMaterialized ==
    Ran("create_group") =>
        /\ last.ret = "True" => AllGroups(nodes, TargetOf(last))
        /\ (~\E q \in Prefixes(TargetOf(last)) : IsDataset(pre, q))
               => last.ret = "True" /\ AllGroups(nodes, TargetOf(last))

\* The paths that name a root: the top of the file and the configured root.
RootPaths == {<<>>, root_group.parts}

\* C17: materializing the root group itself is a no-op success: create_group
\* returns True and changes nothing in the file; and a dataset write whose
\* group key is empty or '/' is not rejected by its materialization step.
C17_RootIsNoOpSuccess ==
    /\ (Ran("create_group") /\ TargetOf(last) \in RootPaths)
           => last.ret = "True" /\ nodes = pre
    /\ (Ran("save_as_dataset") /\ last.groupkey \in {Empty, Slash})
           => Materialized(last).ret = "True" /\ Materialized(last).nodes = pre


\* The groups of the file that the last call has made.
NewGroups == {q \in DOMAIN nodes : IsGroup(nodes, q) /\ ~IsGroup(pre, q)}

GrpKeyOf(c) == PathParent(PurePath(<<c.groupkey, c.name>>))

\* path lies at or below the configured root.
InsideRoot(path) ==
    /\ Len(path) >= Len(root_group.parts)
    /\ SubSeq(path, 1, Len(root_group.parts)) = root_group.parts

\* C19: for every configured root and every (groupkey, name), the parent
\* group that a write asks create_group for (line 134) is the path it then
\* looks up (line 136), namely the root joined with groupkey, which lies
\* inside the configured root; and the group asked for by a construction
\* is <root>/pyqlab_log.
C19_SameParentInsideRoot ==
    /\ last.op = "save_as_dataset" =>
           /\ create_group_p(root_group, Slash, GrpKeyOf(last)).parts
                  = save_as_dataset_grp_key(root_group, GrpKeyOf(last)).parts
           /\ save_as_dataset_grp_key(root_group, GrpKeyOf(last)).parts
                  = PurePath(<<root_group, last.groupkey>>).parts
           /\ InsideRoot(save_as_dataset_grp_key(root_group, GrpKeyOf(last)).parts)
    /\ last.op = "__init__" =>
           create_group_p(root_group, Slash, Abs(<<"pyqlab_log">>)).parts = LogGroup


\* C20: all steps of one dataset write happen inside a single session: when
\* the file can be opened, each public write call opens the file exactly
\* once and closes it exactly once, so the file is never closed between
\* materialization and dataset creation.
C20_SingleSession ==
    (last.op \in DatasetWrites /\ last.io = "ok") =>
        /\ Count(last.trace, "open") = 1
        /\ Count(last.trace, "close") = 1

====
